---- MODULE Spec2Model ----
(***************************************************************************)
(* CallSense: the multi-stage call analysis pipeline (graph.py, agents.py, *)
(* models.py).  One run of process_call is modelled node by node; the text *)
(* generation model is the environment, which answers every llm.invoke     *)
(* with an exception or with a response content.                           *)
(***************************************************************************)
EXTENDS Integers, Sequences, FiniteSets, TLC

\* process_call: the node the graph is at, the state dict, the value returned,
\* and the history of the run (model calls, nodes executed, exceptions caught)
VARIABLES pc, state, result, calls, executed, raisedLog

\* app.py: the position of the Analyze handler, its locals, whether the file
\* save_uploaded_audio created for it is on disk, st.session_state and the
\* data of the download button
VARIABLES app_pc, temp_file_path, temp_file_exists, transcript_to_process,
          session_state, download

\* the inputs and the outcome of an earlier run of process_call
VARIABLES prev

\* utils.py: a score and what the page shows for it
VARIABLES score, label, color

callvars == <<pc, state, result, calls, executed, raisedLog>>
appvars == <<app_pc, temp_file_path, temp_file_exists, transcript_to_process,
             session_state, download>>
utilvars == <<score, label, color>>
vars == <<callvars, appvars, prev, utilvars>>

(***************************************************************************)
(* Bounds of the model.                                                    *)
(***************************************************************************)
\* how many fields of a model response may differ from a well-formed one
MaxDeviations == 1

(***************************************************************************)
(* Python / JSON values.  Every value carries its type tag, so that values *)
(* of different types are different and never compared field by field.     *)
(* Floats are counted in tenths (7.0 is 70).                               *)
(***************************************************************************)
None == [t |-> "null"]
JBool(b) == [t |-> "bool", b |-> b]
JInt(n) == [t |-> "int", n |-> n]
JFloat(f) == [t |-> "float", f |-> f]
JStr(s) == [t |-> "str", s |-> s]
JList(l) == [t |-> "list", l |-> l]

\* Python truthiness: bool(v), as used by `not x` and `if x`
Truthy(v) ==
    CASE v.t = "null" -> FALSE
      [] v.t = "bool" -> v.b
      [] v.t = "int" -> v.n # 0
      [] v.t = "float" -> v.f # 0
      [] v.t = "str" -> v.s # ""
      [] v.t = "list" -> v.l # <<>>
      [] OTHER -> TRUE

\* the empty dict {}
EmptyDict == <<>>

\* dict.get(key, default)
Get(d, key, default) == IF key \in DOMAIN d THEN d[key] ELSE default

\* isinstance(v, cls) for the pydantic models
IsInstance(v, cls) == "cls" \in DOMAIN v /\ v.cls = cls

(***************************************************************************)
(* The environment: what llm.invoke does.  It raises an exception with a   *)
(* message, or returns a response whose content is malformed JSON, JSON    *)
(* that is no object, or a JSON object (a function from keys to values).   *)
(***************************************************************************)
InvokeMessages == {"Connection error"}

Raises(msg) == [kind |-> "raise", msg |-> msg]
Malformed == [kind |-> "content", json |-> "malformed"]
NonObject == [kind |-> "content", json |-> "array"]
Object(o) == [kind |-> "content", json |-> "object", o |-> o]

\* a field the response leaves out
Absent == [t |-> "absent"]

\* the objects that differ from `base` in the fields D, as `ch` says
Deviate(base, D, ch) ==
    [k \in {k2 \in DOMAIN base : ~(k2 \in D /\ ch[k2] = Absent)} |->
        IF k \in D THEN ch[k] ELSE base[k]]

\* the objects that differ from `base` in at most MaxDeviations fields, each
\* such field left out or given one of the values alts[field]
Objects(base, alts) ==
    UNION { { Deviate(base, D, ch) :
                ch \in { c \in [D -> UNION {alts[k] : k \in D}] :
                            \A k \in D : c[k] \in alts[k] } } :
            D \in { E \in SUBSET DOMAIN base : Cardinality(E) <= MaxDeviations } }

Responses(bases, alts) ==
    { Raises(m) : m \in InvokeMessages } \cup {Malformed, NonObject}
        \cup { Object(o) : o \in UNION { Objects(b, alts) : b \in bases } }

\* json.loads(response.content): a dict, or a failure the caller's except
\* clause sees (a decode error, or .get on a value that is no dict)
json_loads_dict(resp) ==
    IF resp.json = "object" THEN [ok |-> TRUE, data |-> resp.o] ELSE [ok |-> FALSE]

\* what a stage hands back to its node: a value, or an exception
Returns(v, called) == [raised |-> FALSE, value |-> v, called |-> called]
Throws(msg, called) == [raised |-> TRUE, msg |-> msg, called |-> called]

\* str(e) of the AttributeError raised by None.<attr>
NoAttribute(attr) == "'NoneType' object has no attribute '" \o attr \o "'"
\* str(e) of a pydantic ValidationError for model `cls` (the head of the text)
ValidationError(cls) == "1 validation error for " \o cls

(***************************************************************************)
(* models.py: the pydantic models.  A constructor validates its fields and *)
(* raises a ValidationError when one does not fit.  The responses of this  *)
(* model hold no value that pydantic would coerce (a numeric string for an *)
(* int, a number for a str), so validation is a test of the type.          *)
(***************************************************************************)
SentimentValues == {"positive", "neutral", "negative"}
CategoryValues == {"complaint", "inquiry", "technical_support", "billing", "general"}

IsStr(v) == v.t = "str"
IsStrList(v) == v.t = "list"
IsOptionalInt(v) == v.t \in {"int", "null"}

\* SentimentType(value), CallCategory(value): the member, or ValueError
\* a sentiment converter that takes any string for a member
IsSentiment_any_string(v) == v.t = "str"

IsSentiment(v) == v.t = "str" /\ v.s \in SentimentValues
IsCategory(v) == v.t = "str" /\ v.s \in CategoryValues

\* Field(ge=0, le=10) of QAScore, in tenths
ScoreMin == 0
ScoreMax == 100
InRange(f) == ScoreMin <= f /\ f <= ScoreMax

CallTranscript(text, speaker_count, duration) ==
    IF IsStr(text) /\ IsOptionalInt(speaker_count)
    THEN [ok |-> TRUE,
          obj |-> [cls |-> "CallTranscript", text |-> text,
                   speaker_count |-> speaker_count, duration |-> duration]]
    ELSE [ok |-> FALSE]

CallSummary(key_points, customer_issue, resolution, sentiment, category, action_items) ==
    IF /\ IsStrList(key_points) /\ IsStr(customer_issue) /\ IsStr(resolution)
       /\ IsSentiment(sentiment) /\ IsCategory(category) /\ IsStrList(action_items)
    THEN [ok |-> TRUE,
          obj |-> [cls |-> "CallSummary", key_points |-> key_points,
                   customer_issue |-> customer_issue, resolution |-> resolution,
                   sentiment |-> sentiment.s, category |-> category.s,
                   action_items |-> action_items]]
    ELSE [ok |-> FALSE]

\* a QAScore whose fields carry no ge/le constraint
QAScore_unconstrained(empathy, professionalism, resolution, compliance, overall) ==
    [ok |-> TRUE,
     obj |-> [cls |-> "QAScore", empathy |-> empathy,
              professionalism |-> professionalism, resolution |-> resolution,
              compliance |-> compliance, overall |-> overall]]

QAScore(empathy, professionalism, resolution, compliance, overall) ==
    IF \A f \in {empathy, professionalism, resolution, compliance, overall} : InRange(f)
    THEN [ok |-> TRUE,
          obj |-> [cls |-> "QAScore", empathy |-> empathy,
                   professionalism |-> professionalism, resolution |-> resolution,
                   compliance |-> compliance, overall |-> overall]]
    ELSE [ok |-> FALSE]

\* a CallAnalysis that takes its parts unvalidated
CallAnalysis_unvalidated(transcript, summary, qa_scores, recommendations, tags) ==
    [ok |-> TRUE,
     obj |-> [cls |-> "CallAnalysis", transcript |-> transcript,
              summary |-> summary, qa_scores |-> qa_scores,
              recommendations |-> recommendations, tags |-> tags]]

CallAnalysis(transcript, summary, qa_scores, recommendations, tags) ==
    IF /\ IsInstance(transcript, "CallTranscript") /\ IsInstance(summary, "CallSummary")
       /\ IsInstance(qa_scores, "QAScore")
       /\ IsStrList(recommendations) /\ IsStrList(tags)
    THEN [ok |-> TRUE,
          obj |-> [cls |-> "CallAnalysis", transcript |-> transcript,
                   summary |-> summary, qa_scores |-> qa_scores,
                   recommendations |-> recommendations, tags |-> tags]]
    ELSE [ok |-> FALSE]

(***************************************************************************)
(* agents.py: CallIntakeAgent                                              *)
(***************************************************************************)
\* a fail-closed fallback: an undecodable answer rejects the input
IntakeFallback_fail_closed(raw_input) ==
    [is_valid |-> JBool(FALSE), reason |-> JStr("Transcript accepted"),
     estimated_speakers |-> JInt(2), transcript |-> raw_input]

IntakeFallback(raw_input) ==
    [is_valid |-> JBool(TRUE), reason |-> JStr("Transcript accepted"),
     estimated_speakers |-> JInt(2), transcript |-> raw_input]

\* an intake that takes a response lacking a field for a decode failure
CallIntakeAgent_process_strict(raw_input, resp) ==
    IF resp.kind = "raise" THEN Throws(resp.msg, TRUE)
    ELSE LET parsed == json_loads_dict(resp) IN
         IF parsed.ok /\ {"is_valid", "reason", "estimated_speakers"} \subseteq DOMAIN parsed.data
         THEN Returns([is_valid |-> parsed.data["is_valid"],
                       reason |-> parsed.data["reason"],
                       estimated_speakers |-> parsed.data["estimated_speakers"],
                       transcript |-> raw_input], TRUE)
         ELSE Returns(IntakeFallback(raw_input), TRUE)

CallIntakeAgent_process(raw_input, resp) ==
    IF resp.kind = "raise" THEN Throws(resp.msg, TRUE)
    ELSE LET parsed == json_loads_dict(resp) IN
         IF parsed.ok
         THEN Returns([is_valid |-> Get(parsed.data, "is_valid", JBool(TRUE)),
                       reason |-> Get(parsed.data, "reason", JStr("Valid transcript")),
                       estimated_speakers |-> Get(parsed.data, "estimated_speakers", JInt(2)),
                       transcript |-> raw_input], TRUE)
         ELSE Returns(IntakeFallback(raw_input), TRUE)

(***************************************************************************)
(* agents.py: TranscriptionAgent (no model call)                           *)
(***************************************************************************)
TranscriptionAgent_process(intake_data) ==
    IF "transcript" \notin DOMAIN intake_data THEN Throws("'transcript'", FALSE)
    ELSE LET made == CallTranscript(intake_data["transcript"],
                                    Get(intake_data, "estimated_speakers", JInt(2)), None) IN
         IF made.ok THEN Returns(made.obj, FALSE)
         ELSE Throws(ValidationError("CallTranscript"), FALSE)

(***************************************************************************)
(* agents.py: SummarizationAgent                                           *)
(***************************************************************************)
SummaryFallback ==
    [cls |-> "CallSummary",
     key_points |-> JList(<<"Summary generation failed - using fallback">>),
     customer_issue |-> JStr("Unable to parse"), resolution |-> JStr("Unable to parse"),
     sentiment |-> "neutral", category |-> "general", action_items |-> JList(<<>>)]

SummarizationAgent_process(transcript, resp) ==
    IF ~IsInstance(transcript, "CallTranscript") THEN Throws(NoAttribute("text"), FALSE)
    ELSE IF resp.kind = "raise" THEN Throws(resp.msg, TRUE)
    ELSE LET parsed == json_loads_dict(resp) IN
         IF ~parsed.ok THEN Returns(SummaryFallback, TRUE)
         ELSE LET data == parsed.data
                  made == CallSummary(
                      Get(data, "key_points", JList(<<"No key points extracted">>)),
                      Get(data, "customer_issue", JStr("Not identified")),
                      Get(data, "resolution", JStr("Not specified")),
                      Get(data, "sentiment", JStr("neutral")),
                      Get(data, "category", JStr("general")),
                      Get(data, "action_items", JList(<<>>)))
              IN IF made.ok THEN Returns(made.obj, TRUE)
                 ELSE Returns(SummaryFallback, TRUE)

(***************************************************************************)
(* agents.py: QualityScoringAgent                                          *)
(***************************************************************************)
FallbackScore == 70

\* float(v), in tenths: a number converts, True is 1.0, a numeric string is
\* parsed ("8.5" is the numeric string of this model), anything else raises
float(v) ==
    CASE v.t = "float" -> [ok |-> TRUE, f |-> v.f]
      [] v.t = "int" -> [ok |-> TRUE, f |-> 10 * v.n]
      [] v.t = "bool" -> [ok |-> TRUE, f |-> IF v.b THEN 10 ELSE 0]
      [] v.t = "str" /\ v.s = "8.5" -> [ok |-> TRUE, f |-> 85]
      [] OTHER -> [ok |-> FALSE]

QAFallback ==
    [cls |-> "QAScore", empathy |-> FallbackScore, professionalism |-> FallbackScore,
     resolution |-> FallbackScore, compliance |-> FallbackScore, overall |-> FallbackScore]

ScoreFields == {"empathy", "professionalism", "resolution", "compliance", "overall"}

QualityScoringAgent_process(transcript, summary, resp) ==
    IF ~IsInstance(transcript, "CallTranscript") THEN Throws(NoAttribute("text"), FALSE)
    ELSE IF ~IsInstance(summary, "CallSummary")
    THEN Throws(NoAttribute("customer_issue"), FALSE)
    ELSE IF resp.kind = "raise" THEN Throws(resp.msg, TRUE)
    ELSE LET parsed == json_loads_dict(resp) IN
         IF ~parsed.ok THEN Returns(QAFallback, TRUE)
         ELSE LET conv == [k \in ScoreFields |->
                              float(Get(parsed.data, k, JFloat(FallbackScore)))]
              IN IF \E k \in ScoreFields : ~conv[k].ok THEN Returns(QAFallback, TRUE)
                 ELSE LET made == QAScore(conv["empathy"].f, conv["professionalism"].f,
                                          conv["resolution"].f, conv["compliance"].f,
                                          conv["overall"].f)
                      IN IF made.ok THEN Returns(made.obj, TRUE)
                         ELSE Returns(QAFallback, TRUE)

(***************************************************************************)
(* agents.py: RoutingAgent                                                 *)
(***************************************************************************)
\* a fallback that takes the defaults of the decoded branch
RoutingFallback_as_defaults(summary) ==
    [recommendations |-> JList(<<"Continue current approach">>),
     tags |-> JList(<<summary.category, summary.sentiment>>)]

RoutingFallback(summary) ==
    [recommendations |-> JList(<<"Review call quality", "Follow up with customer">>),
     tags |-> JList(<<summary.category, summary.sentiment, "needs_review">>)]

\* a routing agent that reads the summary and the scores only after the call
RoutingAgent_process_late_read(summary, qa_scores, resp) ==
    IF resp.kind = "raise" THEN Throws(resp.msg, TRUE)
    ELSE IF ~IsInstance(summary, "CallSummary") THEN Throws(NoAttribute("category"), TRUE)
    ELSE IF ~IsInstance(qa_scores, "QAScore") THEN Throws(NoAttribute("empathy"), TRUE)
    ELSE LET parsed == json_loads_dict(resp) IN
         IF ~parsed.ok THEN Returns(RoutingFallback(summary), TRUE)
         ELSE Returns(
                [recommendations |->
                    Get(parsed.data, "recommendations", JList(<<"Continue current approach">>)),
                 tags |->
                    Get(parsed.data, "tags", JList(<<summary.category, summary.sentiment>>))],
                TRUE)

RoutingAgent_process(summary, qa_scores, resp) ==
    IF ~IsInstance(summary, "CallSummary") THEN Throws(NoAttribute("category"), FALSE)
    ELSE IF ~IsInstance(qa_scores, "QAScore") THEN Throws(NoAttribute("empathy"), FALSE)
    ELSE IF resp.kind = "raise" THEN Throws(resp.msg, TRUE)
    ELSE LET parsed == json_loads_dict(resp) IN
         IF ~parsed.ok THEN Returns(RoutingFallback(summary), TRUE)
         ELSE Returns(
                [recommendations |->
                    Get(parsed.data, "recommendations", JList(<<"Continue current approach">>)),
                 tags |->
                    Get(parsed.data, "tags", JList(<<summary.category, summary.sentiment>>))],
                TRUE)

(***************************************************************************)
(* The inputs of the model: the raw inputs and, for each model-backed      *)
(* stage, the responses of the text generation model.                      *)
(***************************************************************************)
RawInputs == {JStr(""), JStr("Agent: Hello. Customer: My internet keeps dropping.")}

IntakeBases ==
    { [is_valid |-> JBool(TRUE), reason |-> JStr("Valid call transcript"),
       estimated_speakers |-> JInt(2)],
      [is_valid |-> JBool(FALSE), reason |-> JStr("Not a call transcript"),
       estimated_speakers |-> JInt(1)] }
IntakeAlts ==
    [is_valid |-> {Absent, None, JStr("yes")},
     reason |-> {Absent, JStr("")},
     estimated_speakers |-> {Absent, JStr("two")}]
IntakeResponses == Responses(IntakeBases, IntakeAlts)

SummaryBases ==
    { [key_points |-> JList(<<"Internet drops", "Modem reset">>),
       customer_issue |-> JStr("Intermittent internet drops"),
       resolution |-> JStr("Modem reset"),
       sentiment |-> JStr("positive"), category |-> JStr("technical_support"),
       action_items |-> JList(<<"Monitor connection">>)] }
SummaryAlts ==
    [key_points |-> {Absent}, customer_issue |-> {None}, resolution |-> {},
     sentiment |-> {Absent, JStr("mixed")}, category |-> {Absent, JStr("sales")},
     action_items |-> {Absent}]
SummaryResponses == Responses(SummaryBases, SummaryAlts)

QABases ==
    { [empathy |-> JFloat(75), professionalism |-> JInt(8), resolution |-> JFloat(65),
       compliance |-> JInt(9), overall |-> JStr("8.5")] }
QAAlts ==
    [empathy |-> {Absent}, professionalism |-> {JFloat(-5)},
     resolution |-> {JStr("high")}, compliance |-> {None}, overall |-> {JInt(11)}]
QAResponses == Responses(QABases, QAAlts)

RoutingBases ==
    { [recommendations |-> JList(<<"Offer proactive firmware updates">>),
       tags |-> JList(<<"internet", "modem">>)] }
RoutingAlts ==
    [recommendations |-> {Absent, JStr("Escalate")}, tags |-> {Absent, None}]
RoutingResponses == Responses(RoutingBases, RoutingAlts)

(***************************************************************************)
(* graph.py: the node functions.  Each takes the state and the model's     *)
(* answer and gives the state it returns, whether llm.invoke was called    *)
(* and the exception its except clause caught, if any.                     *)
(***************************************************************************)
Ran(st, r) == [state |-> st, called |-> r.called, raised |-> r.raised,
               msg |-> IF r.raised THEN r.msg ELSE ""]

intake_node(st, resp) ==
    LET r == CallIntakeAgent_process(st.raw_input, resp) IN
    IF r.raised
    THEN Ran([st EXCEPT !.error = JStr("Intake error: " \o r.msg)], r)
    ELSE LET s1 == [st EXCEPT !.intake_data = r.value] IN
         IF ~Truthy(r.value["is_valid"])
         THEN Ran([s1 EXCEPT !.error = r.value["reason"]], r)
         ELSE Ran(s1, r)

transcription_node(st) ==
    LET r == TranscriptionAgent_process(st.intake_data) IN
    IF r.raised
    THEN Ran([st EXCEPT !.error = JStr("Transcription error: " \o r.msg)], r)
    ELSE Ran([st EXCEPT !.transcript = r.value], r)

\* a summarization node that drops the transcript when the agent fails
summarization_node_dropping(st, resp) ==
    LET r == SummarizationAgent_process(st.transcript, resp) IN
    IF r.raised
    THEN Ran([st EXCEPT !.error = JStr("Summarization error: " \o r.msg),
                        !.transcript = None], r)
    ELSE Ran([st EXCEPT !.summary = r.value], r)

summarization_node(st, resp) ==
    LET r == SummarizationAgent_process(st.transcript, resp) IN
    IF r.raised
    THEN Ran([st EXCEPT !.error = JStr("Summarization error: " \o r.msg)], r)
    ELSE Ran([st EXCEPT !.summary = r.value], r)

quality_scoring_node(st, resp) ==
    LET r == QualityScoringAgent_process(st.transcript, st.summary, resp) IN
    IF r.raised
    THEN Ran([st EXCEPT !.error = JStr("Quality scoring error: " \o r.msg)], r)
    ELSE Ran([st EXCEPT !.qa_scores = r.value], r)

routing_node(st, resp) ==
    LET r == RoutingAgent_process(st.summary, st.qa_scores, resp) IN
    IF r.raised
    THEN Ran([st EXCEPT !.error = JStr("Routing error: " \o r.msg)], r)
    ELSE Ran([st EXCEPT !.recommendations = r.value["recommendations"],
                        !.tags = r.value["tags"]], r)

(***************************************************************************)
(* graph.py: the edges of the workflow                                     *)
(***************************************************************************)
\* a conditional edge that never ends the run
intake_edge_always_continue(st) == "continue"

\* the conditional edge after intake
intake_edge(st) ==
    IF Truthy(Get(st.intake_data, "is_valid", JBool(FALSE))) THEN "continue" ELSE "end"

after_intake(st) == IF intake_edge(st) = "continue" THEN "transcription" ELSE "END"
after_transcription(st) == "summarization"
after_summarization(st) == "quality_scoring"
\* an edge that sends a fallback score back for another try
after_quality_scoring_retry(st) ==
    IF st.qa_scores = QAFallback THEN "quality_scoring" ELSE "routing"

after_quality_scoring(st) == "routing"
after_routing(st) == "END"

(***************************************************************************)
(* graph.py: process_call                                                  *)
(***************************************************************************)
\* a state dict shared by all runs, of which a run resets raw_input only
initial_state_shared(raw_input) == [state EXCEPT !.raw_input = raw_input]

initial_state(raw_input) ==
    [raw_input |-> raw_input, intake_data |-> EmptyDict, transcript |-> None,
     summary |-> None, qa_scores |-> None, recommendations |-> JList(<<>>),
     tags |-> JList(<<>>), error |-> None]

\* the value process_call returns for the state the graph ended in
process_call_result(st) ==
    IF Truthy(st.error) THEN [error |-> st.error]
    ELSE LET made == CallAnalysis(st.transcript, st.summary, st.qa_scores,
                                  st.recommendations, st.tags) IN
         IF made.ok THEN made.obj
         ELSE [error |-> JStr("Failed to build analysis: " \o ValidationError("CallAnalysis"))]

NotReturned == [pending |-> TRUE]

(***************************************************************************)
(* config.py, utils.py: the display thresholds and the classification of a *)
(* score, in tenths                                                        *)
(***************************************************************************)
EXCELLENT_THRESHOLD == 80
GOOD_THRESHOLD == 60
NEEDS_IMPROVEMENT_THRESHOLD == 40

get_score_color(s) ==
    IF s >= EXCELLENT_THRESHOLD THEN "green"
    ELSE IF s >= GOOD_THRESHOLD THEN "orange"
    ELSE "red"

\* a label that takes a score on a threshold for the class below it
get_score_label_above(s) ==
    IF s > EXCELLENT_THRESHOLD THEN "Excellent"
    ELSE IF s > GOOD_THRESHOLD THEN "Good"
    ELSE IF s > NEEDS_IMPROVEMENT_THRESHOLD THEN "Needs Improvement"
    ELSE "Poor"

get_score_label(s) ==
    IF s >= EXCELLENT_THRESHOLD THEN "Excellent"
    ELSE IF s >= GOOD_THRESHOLD THEN "Good"
    ELSE IF s >= NEEDS_IMPROVEMENT_THRESHOLD THEN "Needs Improvement"
    ELSE "Poor"

(***************************************************************************)
(* The state machine of process_call                                       *)
(***************************************************************************)
NoPrev == [none |-> TRUE]

\* before the first call no run has left anything behind
InitCall ==
    /\ pc = "idle"
    /\ state = [raw_input |-> JStr(""), intake_data |-> EmptyDict, transcript |-> None,
                summary |-> None, qa_scores |-> None, recommendations |-> JList(<<>>),
                tags |-> JList(<<>>), error |-> None]
    /\ result = NotReturned
    /\ calls = <<>>
    /\ executed = <<>>
    /\ raisedLog = <<>>

\* the page before any button was pressed
InitApp ==
    /\ app_pc = "page"
    /\ temp_file_path = None
    /\ temp_file_exists = FALSE
    /\ transcript_to_process = None
    /\ session_state = EmptyDict
    /\ download = None

Init ==
    /\ InitCall
    /\ InitApp
    /\ prev = NoPrev
    /\ score = ScoreMin /\ label = "" /\ color = ""

\* process_call(raw_input) up to graph.invoke: a fresh state record
ProcessCallOn(raw_input) ==
    /\ pc \in {"idle", "done"}
    /\ state' = initial_state(raw_input)
    /\ pc' = "intake"
    /\ result' = NotReturned
    /\ calls' = <<>>
    /\ executed' = <<>>
    /\ raisedLog' = <<>>

ProcessCall ==
    /\ \E raw_input \in RawInputs : ProcessCallOn(raw_input)
    /\ UNCHANGED <<appvars, prev, utilvars>>

\* the answers the model can give to the next call: any answer of the
\* stage; in the replay of an earlier run, the answer that run got to its
\* call of the same position
Offered(responses) ==
    IF prev # NoPrev /\ Len(calls) < Len(prev.calls)
    THEN {prev.calls[Len(calls) + 1].resp}
    ELSE responses

\* the bookkeeping of one node run: the node, the model call and its answer,
\* the exception the node caught
Log(node, ran, resp) ==
    /\ executed' = Append(executed, node)
    /\ calls' = IF ran.called THEN Append(calls, [node |-> node, resp |-> resp]) ELSE calls
    /\ raisedLog' = IF ran.raised
                    THEN Append(raisedLog, [node |-> node, msg |-> ran.msg,
                                            called |-> ran.called])
                    ELSE raisedLog

IntakeNode ==
    /\ pc = "intake"
    /\ \E resp \in Offered(IntakeResponses) :
          LET ran == intake_node(state, resp) IN
          /\ state' = ran.state
          /\ pc' = after_intake(ran.state)
          /\ Log("intake", ran, resp)
    /\ UNCHANGED <<result, appvars, prev, utilvars>>

TranscriptionNode ==
    /\ pc = "transcription"
    /\ LET ran == transcription_node(state) IN
          /\ state' = ran.state
          /\ pc' = after_transcription(ran.state)
          /\ Log("transcription", ran, None)
    /\ UNCHANGED <<result, appvars, prev, utilvars>>

SummarizationNode ==
    /\ pc = "summarization"
    /\ \E resp \in Offered(SummaryResponses) :
          LET ran == summarization_node(state, resp) IN
          /\ state' = ran.state
          /\ pc' = after_summarization(ran.state)
          /\ Log("summarization", ran, resp)
    /\ UNCHANGED <<result, appvars, prev, utilvars>>

QualityScoringNode ==
    /\ pc = "quality_scoring"
    /\ \E resp \in Offered(QAResponses) :
          LET ran == quality_scoring_node(state, resp) IN
          /\ state' = ran.state
          /\ pc' = after_quality_scoring(ran.state)
          /\ Log("quality_scoring", ran, resp)
    /\ UNCHANGED <<result, appvars, prev, utilvars>>

RoutingNode ==
    /\ pc = "routing"
    /\ \E resp \in Offered(RoutingResponses) :
          LET ran == routing_node(state, resp) IN
          /\ state' = ran.state
          /\ pc' = after_routing(ran.state)
          /\ Log("routing", ran, resp)
    /\ UNCHANGED <<result, appvars, prev, utilvars>>

\* process_call after graph.invoke: the error record or the CallAnalysis
Return ==
    /\ pc = "END"
    /\ result' = process_call_result(state)
    /\ pc' = "done"
    /\ UNCHANGED <<state, calls, executed, raisedLog, appvars, prev, utilvars>>

Next ==
    \/ ProcessCall
    \/ IntakeNode
    \/ TranscriptionNode
    \/ SummarizationNode
    \/ QualityScoringNode
    \/ RoutingNode
    \/ Return

Spec == Init /\ [][Next]_vars

(***************************************************************************)
(* Two runs of process_call on the same raw input, the second one with a   *)
(* model that gives the answers (or raises the exceptions) of the first.   *)
(***************************************************************************)
FirstRun ==
    /\ pc = "idle"
    /\ ProcessCall

SecondRun ==
    /\ pc = "done"
    /\ prev = NoPrev
    /\ prev' = [raw_input |-> state.raw_input, calls |-> calls, executed |-> executed,
                result |-> result]
    /\ ProcessCallOn(state.raw_input)
    /\ UNCHANGED <<appvars, utilvars>>

NextReplay ==
    \/ FirstRun
    \/ SecondRun
    \/ IntakeNode
    \/ TranscriptionNode
    \/ SummarizationNode
    \/ QualityScoringNode
    \/ RoutingNode
    \/ Return

SpecReplay == Init /\ [][NextReplay]_vars

(***************************************************************************)
(* audio_utils.py and the Analyze handler of app.py.  The page takes one   *)
(* analysis per session: Analyze is pressed while the session holds no     *)
(* analysis_result, and NewSession opens the page afresh.  The model       *)
(* follows the one file save_uploaded_audio creates for the latest Analyze *)
(* action; os.remove succeeds on a file that exists.                       *)
(***************************************************************************)
Put(d, key, value) == [k \in DOMAIN d \cup {key} |-> IF k = key THEN value ELSE d[k]]
Del(d, key) == [k \in DOMAIN d \ {key} |-> d[k]]

Dialogue == JStr("Agent: Hello. Customer: My internet keeps dropping.")
\* what the text area can hold, and what the transcription service can answer
TextInputs == {JStr(""), JStr("   "), Dialogue}
TranscribedTexts == {JStr(""), Dialogue}
TempPath == JStr("/tmp/tmpcall.wav")

\* str.strip() on the texts of the model
strip(v) == IF v \in {JStr(""), JStr("   ")} THEN JStr("") ELSE v

\* save_uploaded_audio: the path of the file written; or an exception, before
\* the file is created or while it is written
SaveOutcomes ==
    { [raised |-> FALSE, exists |-> TRUE, path |-> TempPath],
      [raised |-> TRUE, exists |-> FALSE, path |-> None],
      [raised |-> TRUE, exists |-> TRUE, path |-> None] }

\* transcribe_audio: the text of the service, or an exception
TranscribeOutcomes ==
    {[raised |-> TRUE, text |-> None]}
        \cup {[raised |-> FALSE, text |-> t] : t \in TranscribedTexts}

\* cleanup_temp_file: whether the file exists afterwards
cleanup_temp_file(exists) == IF exists THEN FALSE ELSE exists

\* `if temp_file_path: cleanup_temp_file(temp_file_path)`, app.py:140-141, 166-167
cleanup_if_path(path, exists) == IF Truthy(path) THEN cleanup_temp_file(exists) ELSE exists

\* app.py:152-167, `if transcript_to_process:` up to the first model call:
\* process_call starts, or create_callsense_graph raises and the finally
\* clause cleans up; with no transcript the handler is over
RunPipeline(transcript, path, exists) ==
    IF ~Truthy(transcript)
    THEN /\ app_pc' = "finished"
         /\ temp_file_exists' = exists
         /\ UNCHANGED callvars
    ELSE \/ /\ ProcessCallOn(transcript)
            /\ app_pc' = "processing"
            /\ temp_file_exists' = exists
         \/ /\ app_pc' = "finished"
            /\ temp_file_exists' = cleanup_if_path(path, exists)
            /\ UNCHANGED callvars

CanAnalyze ==
    /\ app_pc \in {"page", "finished"}
    /\ "analysis_result" \notin DOMAIN session_state

\* Analyze pressed with an audio file: app.py:119-127, up to the request to
\* the transcription service
AnalyzeAudio ==
    /\ CanAnalyze
    /\ \E saved \in SaveOutcomes :
          /\ temp_file_path' = saved.path
          /\ temp_file_exists' =
                IF saved.raised THEN cleanup_if_path(saved.path, saved.exists)
                ELSE saved.exists
          /\ app_pc' = IF saved.raised THEN "finished" ELSE "transcribing"
    /\ transcript_to_process' = None
    /\ UNCHANGED <<session_state, download, callvars, prev, utilvars>>

\* the transcription service answered: app.py:127-141, then app.py:152-167
Transcribed ==
    /\ app_pc = "transcribing"
    /\ \E heard \in TranscribeOutcomes :
          IF heard.raised
          THEN /\ temp_file_exists' = cleanup_if_path(temp_file_path, temp_file_exists)
               /\ app_pc' = "finished"
               /\ UNCHANGED <<transcript_to_process, session_state, callvars>>
          ELSE /\ transcript_to_process' = heard.text
               /\ session_state' = Put(session_state, "transcribed_audio", heard.text)
               /\ RunPipeline(heard.text, temp_file_path, temp_file_exists)
    /\ UNCHANGED <<temp_file_path, download, prev, utilvars>>

\* Analyze pressed with no audio file: app.py:142-167
AnalyzeText ==
    /\ CanAnalyze
    /\ temp_file_path' = None
    /\ \E transcript_text \in TextInputs :
          IF Truthy(transcript_text) /\ Truthy(strip(transcript_text))
          THEN /\ transcript_to_process' = transcript_text
               /\ session_state' = Del(session_state, "transcribed_audio")
               /\ RunPipeline(transcript_text, None, FALSE)
          ELSE /\ transcript_to_process' = None
               /\ RunPipeline(None, None, FALSE)
               /\ UNCHANGED session_state
    /\ UNCHANGED <<download, prev, utilvars>>

\* process_call returned: app.py:155-167.  The handler is over, and with it
\* the frame of process_call.
AnalyzeFinish ==
    /\ app_pc = "processing" /\ pc = "done"
    /\ session_state' =
          IF "cls" \notin DOMAIN result /\ "error" \in DOMAIN result
          THEN session_state
          ELSE Put(Put(session_state, "analysis_result", result),
                   "last_transcript", transcript_to_process)
    /\ temp_file_exists' = cleanup_if_path(temp_file_path, temp_file_exists)
    /\ app_pc' = "finished"
    /\ pc' = "idle" /\ state' = initial_state(JStr("")) /\ result' = NotReturned
    /\ calls' = <<>> /\ executed' = <<>> /\ raisedLog' = <<>>
    /\ UNCHANGED <<temp_file_path, transcript_to_process, download, prev, utilvars>>

(***************************************************************************)
(* app.py:303-330: the export document.  A JSON text is modelled by its    *)
(* syntax tree, so that writing and reading it are conversions.            *)
(***************************************************************************)
JDict(d) == [t |-> "dict", d |-> d]

\* an export that repeats the empathy score as the overall score
export_data_overall_as_empathy(analysis) ==
    JDict([summary |-> JDict([category |-> JStr(analysis.summary.category),
                              sentiment |-> JStr(analysis.summary.sentiment),
                              customer_issue |-> analysis.summary.customer_issue,
                              resolution |-> analysis.summary.resolution,
                              key_points |-> analysis.summary.key_points,
                              action_items |-> analysis.summary.action_items]),
           qa_scores |-> JDict([overall |-> JFloat(analysis.qa_scores.empathy),
                                empathy |-> JFloat(analysis.qa_scores.empathy),
                                professionalism |-> JFloat(analysis.qa_scores.professionalism),
                                resolution |-> JFloat(analysis.qa_scores.resolution),
                                compliance |-> JFloat(analysis.qa_scores.compliance)]),
           recommendations |-> analysis.recommendations,
           tags |-> analysis.tags])

export_data(analysis) ==
    JDict([summary |-> JDict([category |-> JStr(analysis.summary.category),
                              sentiment |-> JStr(analysis.summary.sentiment),
                              customer_issue |-> analysis.summary.customer_issue,
                              resolution |-> analysis.summary.resolution,
                              key_points |-> analysis.summary.key_points,
                              action_items |-> analysis.summary.action_items]),
           qa_scores |-> JDict([overall |-> JFloat(analysis.qa_scores.overall),
                                empathy |-> JFloat(analysis.qa_scores.empathy),
                                professionalism |-> JFloat(analysis.qa_scores.professionalism),
                                resolution |-> JFloat(analysis.qa_scores.resolution),
                                compliance |-> JFloat(analysis.qa_scores.compliance)]),
           recommendations |-> analysis.recommendations,
           tags |-> analysis.tags])

\* json.dumps: objects, arrays of strings, strings, numbers (a float is
\* written with its fraction, an int without), true/false, null
RECURSIVE json_dumps(_)
json_dumps(v) ==
    CASE v.t = "dict" -> [j |-> "object", members |-> [k \in DOMAIN v.d |-> json_dumps(v.d[k])]]
      [] v.t = "list" -> [j |-> "array",
                          items |-> [i \in 1..Len(v.l) |-> [j |-> "string", chars |-> v.l[i]]]]
      [] v.t = "str" -> [j |-> "string", chars |-> v.s]
      [] v.t = "float" -> [j |-> "number", tenths |-> v.f, fraction |-> TRUE]
      [] v.t = "int" -> [j |-> "number", tenths |-> 10 * v.n, fraction |-> FALSE]
      [] v.t = "bool" -> [j |-> "literal", name |-> IF v.b THEN "true" ELSE "false"]
      [] v.t = "null" -> [j |-> "literal", name |-> "null"]

\* json.loads
RECURSIVE json_loads(_)
json_loads(doc) ==
    CASE doc.j = "object" -> JDict([k \in DOMAIN doc.members |-> json_loads(doc.members[k])])
      [] doc.j = "array" -> JList([i \in 1..Len(doc.items) |-> doc.items[i].chars])
      [] doc.j = "string" -> JStr(doc.chars)
      [] doc.j = "number" -> IF doc.fraction THEN JFloat(doc.tenths)
                             ELSE JInt(doc.tenths \div 10)
      [] doc.j = "literal" -> IF doc.name = "null" THEN None ELSE JBool(doc.name = "true")

\* the results are rendered: app.py:170-330, the data of the download button
RenderResults ==
    /\ app_pc = "finished"
    /\ "analysis_result" \in DOMAIN session_state
    /\ IsInstance(session_state["analysis_result"], "CallAnalysis")
    /\ download = None
    /\ download' = json_dumps(export_data(session_state["analysis_result"]))
    /\ UNCHANGED <<app_pc, temp_file_path, temp_file_exists, transcript_to_process,
                   session_state, callvars, prev, utilvars>>

\* the page is opened afresh: app.py:20-23
NewSession ==
    /\ app_pc = "finished"
    /\ app_pc' = "page"
    /\ session_state' = EmptyDict
    /\ download' = None
    /\ UNCHANGED <<temp_file_path, temp_file_exists, transcript_to_process,
                   callvars, prev, utilvars>>

NextApp ==
    \/ AnalyzeAudio
    \/ Transcribed
    \/ AnalyzeText
    \/ IntakeNode
    \/ TranscriptionNode
    \/ SummarizationNode
    \/ QualityScoringNode
    \/ RoutingNode
    \/ Return
    \/ AnalyzeFinish
    \/ RenderResults
    \/ NewSession

SpecApp == Init /\ [][NextApp]_vars

(***************************************************************************)
(* The display of a score (app.py:230-231): any score of the QAScore range *)
(* is classified by get_score_label and get_score_color.                   *)
(***************************************************************************)
Scores == ScoreMin..ScoreMax

InitUtils ==
    /\ InitCall
    /\ InitApp
    /\ prev = NoPrev
    /\ score \in Scores /\ label = "" /\ color = ""

\* nothing is shown (the empty text) until the page renders the score
ShowScore ==
    /\ label = ""
    /\ label' = get_score_label(score)
    /\ color' = get_score_color(score)
    /\ UNCHANGED <<score, callvars, appvars, prev>>

NextUtils == ShowScore

SpecUtils == InitUtils /\ [][NextUtils]_vars

(***************************************************************************)
(* What a run looks like from outside                                      *)
(***************************************************************************)
Returned == pc = "done"
IsErrorRecord(r) == DOMAIN r = {"error"}
IsAnalysis(r) == IsInstance(r, "CallAnalysis")
HasRun(node) == \E i \in 1..Len(executed) : executed[i] = node
LaterStages == {"transcription", "summarization", "quality_scoring", "routing"}
\* Intake returned a result, and the result's is_valid is false
IntakeJudgedInvalid ==
    /\ "is_valid" \in DOMAIN state.intake_data
    /\ ~Truthy(state.intake_data["is_valid"])

(***************************************************************************)
(* C1: if the Intake result has is_valid false, process_call returns an    *)
(* error record, no Normalization, Summarization, Quality Scoring or       *)
(* Routing node is executed, and the run issues exactly one model call,    *)
(* the Intake one.                                                         *)
(***************************************************************************)
C1_InvalidIntakeEndsRun ==
    IntakeJudgedInvalid =>
        /\ pc \in {"END", "done"}
        /\ executed = <<"intake">>
        /\ Len(calls) = 1 /\ calls[1].node = "intake"
        /\ Returned => IsErrorRecord(result)

C1_Witness ==
    /\ Returned
    /\ IntakeJudgedInvalid
    /\ state.intake_data["is_valid"] = JBool(FALSE)
    /\ IsErrorRecord(result)

(***************************************************************************)
(* C2: process_call returns either a complete CallAnalysis (transcript,    *)
(* summary, qa_scores, recommendations and tags all present, none None) or *)
(* a dict holding only 'error'; never an analysis with a missing part,     *)
(* never an error together with analysis fields.                           *)
(***************************************************************************)
AnalysisParts == {"transcript", "summary", "qa_scores", "recommendations", "tags"}
IsCompleteAnalysis(r) ==
    /\ DOMAIN r = AnalysisParts \cup {"cls"}
    /\ r.cls = "CallAnalysis"
    /\ \A part \in AnalysisParts : r[part] # None
    /\ IsInstance(r.transcript, "CallTranscript")
    /\ IsInstance(r.summary, "CallSummary")
    /\ IsInstance(r.qa_scores, "QAScore")
    /\ r.recommendations.t = "list" /\ r.tags.t = "list"

C2_CompleteOrError ==
    Returned => \/ IsCompleteAnalysis(result)
                \/ IsErrorRecord(result)

\* C2: the run ended with no error set and no transcript, and still returned
\* an error record (Intake rejected the input with an empty reason)
C2_Witness ==
    /\ Returned
    /\ ~Truthy(state.error)
    /\ state.transcript = None
    /\ IsErrorRecord(result)

(***************************************************************************)
(* C3: once Intake has approved the input, a later stage that raises an    *)
(* exception ends the run at once: no stage node after the failing one is  *)
(* executed.  (The edges after intake are unconditional, graph.py:110-113, *)
(* so the nodes after the failing one do run.)                             *)
(***************************************************************************)
\* the first stage of this run whose node caught an exception
FirstRaise == raisedLog[1]

C3_FailingStageIsLast ==
    (raisedLog # <<>> /\ FirstRaise.node \in LaterStages) =>
        /\ executed[Len(executed)] = FirstRaise.node
        /\ pc \in {"END", "done"}

(***************************************************************************)
(* C4: when a stage raises an exception, the error record process_call     *)
(* returns carries that stage's stage-qualified message: the name of the   *)
(* stage that raised and the message of the exception it raised.           *)
(***************************************************************************)
StageLabel(node) ==
    CASE node = "intake" -> "Intake"
      [] node = "transcription" -> "Transcription"
      [] node = "summarization" -> "Summarization"
      [] node = "quality_scoring" -> "Quality scoring"
      [] node = "routing" -> "Routing"

C4_ErrorNamesRaisingStage ==
    (Returned /\ raisedLog # <<>>) =>
        result = [error |-> JStr(StageLabel(FirstRaise.node) \o " error: " \o FirstRaise.msg)]

(***************************************************************************)
(* C5: when Intake judges the input invalid, the error record process_call *)
(* returns carries exactly the reason value of the Intake result, for      *)
(* every reason value Intake can return.                                   *)
(***************************************************************************)
C5_ErrorCarriesReason ==
    (Returned /\ IntakeJudgedInvalid) =>
        result = [error |-> state.intake_data["reason"]]

(***************************************************************************)
(* The model calls of the current run                                      *)
(***************************************************************************)
Called(node) == \E i \in 1..Len(calls) : calls[i].node = node
Answer(node) == calls[CHOOSE i \in 1..Len(calls) : calls[i].node = node].resp
Caught(node) == \E i \in 1..Len(raisedLog) : raisedLog[i].node = node
Undecodable(node) == Called(node) /\ Answer(node) = Malformed
AnsweredObject(node) ==
    Called(node) /\ Answer(node).kind = "content" /\ Answer(node).json = "object"

\* the fallback records, as documented
DocIntakeFallback ==
    [is_valid |-> JBool(TRUE), reason |-> JStr("Transcript accepted"),
     estimated_speakers |-> JInt(2), transcript |-> state.raw_input]
DocSummaryFallback ==
    [cls |-> "CallSummary",
     key_points |-> JList(<<"Summary generation failed - using fallback">>),
     customer_issue |-> JStr("Unable to parse"), resolution |-> JStr("Unable to parse"),
     sentiment |-> "neutral", category |-> "general", action_items |-> JList(<<>>)]
DocQAFallback ==
    [cls |-> "QAScore", empathy |-> 70, professionalism |-> 70, resolution |-> 70,
     compliance |-> 70, overall |-> 70]
DocRoutingRecommendations == JList(<<"Review call quality", "Follow up with customer">>)
DocRoutingTags == JList(<<state.summary.category, state.summary.sentiment, "needs_review">>)

IntakeIsFallback == state.intake_data = DocIntakeFallback
SummaryIsFallback == state.summary = DocSummaryFallback
QAIsFallback == state.qa_scores = DocQAFallback
RoutingIsFallback ==
    state.recommendations = DocRoutingRecommendations /\ state.tags = DocRoutingTags

(***************************************************************************)
(* C6: for each model-backed stage, a response that is not decodable JSON  *)
(* yields exactly the stage's fixed fallback record (the same in every     *)
(* run), and no exception escapes the stage.                               *)
(***************************************************************************)
C6_UndecodableYieldsFallback ==
    /\ Undecodable("intake") => IntakeIsFallback /\ ~Caught("intake")
    /\ Undecodable("summarization") => SummaryIsFallback /\ ~Caught("summarization")
    /\ Undecodable("quality_scoring") => QAIsFallback /\ ~Caught("quality_scoring")
    /\ Undecodable("routing") => RoutingIsFallback /\ ~Caught("routing")

C6_Witness ==
    /\ Returned
    /\ \A node \in {"intake", "summarization", "quality_scoring", "routing"} :
          Undecodable(node)
    /\ IsAnalysis(result)
    /\ result.tags = JList(<<"general", "neutral", "needs_review">>)

(***************************************************************************)
(* C7: for each model-backed stage, a response that is a valid JSON object *)
(* but lacks one or more of the fields the stage expects is treated as a   *)
(* decode failure: the stage returns exactly its fallback record.          *)
(***************************************************************************)
IntakeFields == {"is_valid", "reason", "estimated_speakers"}
SummaryFields == {"key_points", "customer_issue", "resolution", "sentiment",
                  "category", "action_items"}
RoutingFields == {"recommendations", "tags"}
LacksField(node, fields) ==
    AnsweredObject(node) /\ fields \ DOMAIN Answer(node).o # {}

\* C7 as stated: a response lacking a field yields the fallback record
C7_MissingFieldYieldsFallback ==
    /\ LacksField("intake", IntakeFields) => IntakeIsFallback
    /\ LacksField("summarization", SummaryFields) => SummaryIsFallback
    /\ LacksField("quality_scoring", ScoreFields) => QAIsFallback
    /\ LacksField("routing", RoutingFields) => RoutingIsFallback

\* the per-field defaults, as the stages write them
DocIntakeDefaults ==
    [is_valid |-> JBool(TRUE), reason |-> JStr("Valid transcript"),
     estimated_speakers |-> JInt(2)]
DocSummaryDefaults ==
    [key_points |-> JList(<<"No key points extracted">>),
     customer_issue |-> JStr("Not identified"), resolution |-> JStr("Not specified"),
     sentiment |-> JStr("neutral"), category |-> JStr("general"),
     action_items |-> JList(<<>>)]
DocRoutingDefaults ==
    [recommendations |-> JList(<<"Continue current approach">>),
     tags |-> JList(<<state.summary.category, state.summary.sentiment>>)]

\* the field as the response supplies it, or its default
Supplied(o, k, defaults) == IF k \in DOMAIN o THEN o[k] ELSE defaults[k]

\* every field the response supplies is of the kind the stage's record takes
SummarySuppliedValid(o) ==
    /\ \A k \in {"key_points", "action_items"} \cap DOMAIN o : o[k].t = "list"
    /\ \A k \in {"customer_issue", "resolution"} \cap DOMAIN o : o[k].t = "str"
    /\ "sentiment" \in DOMAIN o =>
          o["sentiment"] \in {JStr("positive"), JStr("neutral"), JStr("negative")}
    /\ "category" \in DOMAIN o =>
          o["category"] \in {JStr("complaint"), JStr("inquiry"), JStr("technical_support"),
                             JStr("billing"), JStr("general")}
ScoresSuppliedValid(o) ==
    \A k \in ScoreFields \cap DOMAIN o :
        float(o[k]).ok /\ 0 <= float(o[k]).f /\ float(o[k]).f <= 100

\* C7, amended: a missing field takes its own default and the supplied
\* fields are kept; the whole fallback record is returned only when a
\* supplied field is invalid; no exception escapes the stage
C7_MissingFieldTakesDefault ==
    /\ LacksField("intake", IntakeFields) =>
          LET o == Answer("intake").o IN
          /\ \A k \in IntakeFields :
                state.intake_data[k] = Supplied(o, k, DocIntakeDefaults)
          /\ state.intake_data["transcript"] = state.raw_input
          /\ ~Caught("intake")
    /\ LacksField("summarization", SummaryFields) =>
          LET o == Answer("summarization").o IN
          /\ ~Caught("summarization")
          /\ IF SummarySuppliedValid(o)
             THEN /\ \A k \in {"key_points", "customer_issue", "resolution", "action_items"} :
                        state.summary[k] = Supplied(o, k, DocSummaryDefaults)
                  /\ \A k \in {"sentiment", "category"} :
                        state.summary[k] = Supplied(o, k, DocSummaryDefaults).s
             ELSE SummaryIsFallback
    /\ LacksField("quality_scoring", ScoreFields) =>
          LET o == Answer("quality_scoring").o IN
          /\ ~Caught("quality_scoring")
          /\ IF ScoresSuppliedValid(o)
             THEN \A k \in ScoreFields :
                    state.qa_scores[k] = IF k \in DOMAIN o THEN float(o[k]).f ELSE 70
             ELSE QAIsFallback
    /\ LacksField("routing", RoutingFields) =>
          LET o == Answer("routing").o IN
          /\ ~Caught("routing")
          /\ state.recommendations = Supplied(o, "recommendations", DocRoutingDefaults)
          /\ state.tags = Supplied(o, "tags", DocRoutingDefaults)

\* C7: a run that completed although every stage's response lacked a field,
\* and whose records are not the fallback records
C7_Witness ==
    /\ Returned /\ IsAnalysis(result)
    /\ LacksField("intake", IntakeFields) /\ ~IntakeIsFallback
    /\ LacksField("summarization", SummaryFields) /\ ~SummaryIsFallback
    /\ LacksField("quality_scoring", ScoreFields) /\ ~QAIsFallback
    /\ LacksField("routing", RoutingFields) /\ ~RoutingIsFallback

(***************************************************************************)
(* C8: for each model-backed stage, a response that is valid JSON but has  *)
(* a field of the wrong type (a non-boolean is_valid, a non-integer        *)
(* estimated_speakers, a non-list recommendations or tags, a non-numeric   *)
(* score) is silently replaced by the stage's fallback record; it is never *)
(* turned into an error record, so the run still reaches Completed.        *)
(***************************************************************************)
HasWrongType(node, k, types) ==
    AnsweredObject(node) /\ k \in DOMAIN Answer(node).o /\ Answer(node).o[k].t \notin types
IntakeWrongType ==
    HasWrongType("intake", "is_valid", {"bool"})
        \/ HasWrongType("intake", "estimated_speakers", {"int"})
ScoreWrongType ==
    \E k \in ScoreFields :
        HasWrongType("quality_scoring", k, {"int", "float"})
            /\ ~float(Answer("quality_scoring").o[k]).ok
RoutingWrongType ==
    HasWrongType("routing", "recommendations", {"list"})
        \/ HasWrongType("routing", "tags", {"list"})
NoInvocationFailed == \A i \in 1..Len(calls) : calls[i].resp.kind # "raise"

C8_WrongTypeFallsBack ==
    /\ IntakeWrongType => IntakeIsFallback
    /\ ScoreWrongType => QAIsFallback
    /\ RoutingWrongType => RoutingIsFallback
    /\ (Returned /\ NoInvocationFailed
            /\ (IntakeWrongType \/ ScoreWrongType \/ RoutingWrongType))
          => IsAnalysis(result)

(***************************************************************************)
(* C9: every QualityScores record Quality Scoring produces, and so every   *)
(* qa_scores of a returned Analysis, has its five fields within [0,10];    *)
(* when the model returns any of the five scores outside [0,10] the step   *)
(* returns the uniform fallback, every field 7.0.                          *)
(***************************************************************************)
ScoresWithin(q) == \A k \in ScoreFields : 0 <= q[k] /\ q[k] <= 100
\* a number outside [0,10] (floats in tenths)
OutOfRange(v) ==
    \/ v.t = "int" /\ (v.n < 0 \/ v.n > 10)
    \/ v.t = "float" /\ (v.f < 0 \/ v.f > 100)
ModelScoreOutOfRange ==
    /\ AnsweredObject("quality_scoring")
    /\ \E k \in ScoreFields \cap DOMAIN Answer("quality_scoring").o :
          OutOfRange(Answer("quality_scoring").o[k])

C9_ScoresInRange ==
    /\ state.qa_scores # None => ScoresWithin(state.qa_scores)
    /\ (Returned /\ IsAnalysis(result)) => ScoresWithin(result.qa_scores)
    /\ ModelScoreOutOfRange => QAIsFallback

C9_Witness ==
    /\ Returned /\ IsAnalysis(result)
    /\ ModelScoreOutOfRange
    /\ result.qa_scores = DocQAFallback

(***************************************************************************)
(* C10: Intake Validation is fail-open: for every raw input, the empty     *)
(* string included, an Intake response that cannot be JSON-decoded gives   *)
(* an Intake result with is_valid true and estimated speaker count 2, and  *)
(* the pipeline proceeds to Transcript Normalization.                      *)
(***************************************************************************)
C10_IntakeFailOpen ==
    Undecodable("intake") =>
        /\ state.intake_data["is_valid"] = JBool(TRUE)
        /\ state.intake_data["estimated_speakers"] = JInt(2)
        /\ \/ pc = "transcription" /\ executed = <<"intake">>
           \/ Len(executed) >= 2 /\ executed[2] = "transcription"

C10_Witness ==
    /\ state.raw_input = JStr("")
    /\ Undecodable("intake")
    /\ HasRun("transcription")
    /\ IsInstance(state.transcript, "CallTranscript")

(***************************************************************************)
(* C11: Transcript Normalization is a pure reshape: for every Intake       *)
(* result with text T and speaker estimate n it produces exactly           *)
(* {text: T, speaker_count: n, duration: null}, issues no model call, and  *)
(* in every Completed run Analysis.transcript.text is the RawInput.        *)
(***************************************************************************)
C11_NormalizationReshapes ==
    /\ HasRun("transcription") =>
          /\ state.transcript =
                [cls |-> "CallTranscript", text |-> state.intake_data["transcript"],
                 speaker_count |-> state.intake_data["estimated_speakers"],
                 duration |-> None]
          /\ ~Called("transcription")
    /\ (Returned /\ IsAnalysis(result)) => result.transcript.text = state.raw_input

(***************************************************************************)
(* C12: exactly one model call is made per stage invocation, with no retry *)
(* after a decode failure or an invocation failure: a run that reaches     *)
(* Completed issues exactly four model calls, in the order Intake,         *)
(* Summarization, Quality Scoring, Routing, and each stage starts only     *)
(* after the previous one has returned.                                    *)
(***************************************************************************)
StageOrder == <<"intake", "transcription", "summarization", "quality_scoring", "routing">>
Rank(node) == CHOOSE i \in 1..Len(StageOrder) : StageOrder[i] = node
CallNodes == [i \in 1..Len(calls) |-> calls[i].node]

C12_OneCallPerStageInOrder ==
    /\ \A i, j \in 1..Len(calls) : i < j => Rank(calls[i].node) < Rank(calls[j].node)
    /\ \A i \in 1..Len(calls) : calls[i].node # "transcription"
    /\ Len(executed) <= Len(StageOrder)
    /\ \A i \in 1..Len(executed) : executed[i] = StageOrder[i]
    /\ (Returned /\ IsAnalysis(result)) =>
          CallNodes = <<"intake", "summarization", "quality_scoring", "routing">>

\* C12: a Completed run whose Quality Scoring answer could not be decoded:
\* four calls, none repeated
C12_Witness ==
    /\ Returned /\ IsAnalysis(result)
    /\ Undecodable("quality_scoring")
    /\ Len(calls) = 4

(***************************************************************************)
(* C13: when audio input is used, the temporary file written by            *)
(* save_uploaded_audio is deleted on every exit path of the Analyze        *)
(* action: after the action has finished, the file no longer exists.  (The *)
(* cleanup after transcription sits under `if transcript_to_process:`,     *)
(* app.py:152-167, which an empty transcription skips.)                    *)
(***************************************************************************)
\* save_uploaded_audio returned the path of the file it wrote
AudioSaved == temp_file_path # None

C13_TempFileDeleted ==
    (app_pc = "finished" /\ AudioSaved) => ~temp_file_exists

(***************************************************************************)
(* C14: process_call is deterministic given the model: two runs with the   *)
(* same raw input and a model that returns the same sequence of responses  *)
(* (or raises the same exceptions) return identical results, an Analysis   *)
(* or an error record; nothing of the first run influences the second,     *)
(* because each run builds a fresh state record.                           *)
(***************************************************************************)
Replaying == prev # NoPrev

C14_SameInputsSameResult ==
    Replaying =>
        /\ pc = "intake" =>
              /\ state.raw_input = prev.raw_input
              /\ state.intake_data = EmptyDict
              /\ state.transcript = None /\ state.summary = None /\ state.qa_scores = None
              /\ state.recommendations = JList(<<>>) /\ state.tags = JList(<<>>)
              /\ state.error = None
        /\ Returned =>
              /\ result = prev.result
              /\ calls = prev.calls
              /\ executed = prev.executed

\* C14: both runs returned the same Analysis, built from decoded answers
C14_Witness ==
    /\ Replaying /\ Returned
    /\ IsAnalysis(result) /\ result = prev.result
    /\ \A i \in 1..Len(calls) : calls[i].resp.kind = "content"
    /\ result.summary # DocSummaryFallback

(***************************************************************************)
(* C15: the terminal export round-trips: decoding the export document      *)
(* built from an Analysis reproduces all fields of that Analysis           *)
(* (transcript, summary, qa_scores, recommendations, tags), so that two    *)
(* Analyses with the same export are equal.  (The document has no          *)
(* transcript: app.py:303-321.)                                            *)
(***************************************************************************)
Exported == download # None
ShownAnalysis == session_state["analysis_result"]

\* the parts of an Analysis read back from an export document
Decoded(doc) ==
    LET data == json_loads(doc).d
        s == data["summary"].d
        q == data["qa_scores"].d
        summary == CallSummary(s["key_points"], s["customer_issue"], s["resolution"],
                               s["sentiment"], s["category"], s["action_items"])
        scores == IF \A k \in ScoreFields : q[k].t = "float"
                  THEN QAScore(q["empathy"].f, q["professionalism"].f, q["resolution"].f,
                               q["compliance"].f, q["overall"].f)
                  ELSE [ok |-> FALSE]
        rest == [part \in (DOMAIN data) \ {"summary", "qa_scores"} |-> data[part]]
    IN [part \in DOMAIN data |->
           CASE part = "summary" -> IF summary.ok THEN summary.obj ELSE None
             [] part = "qa_scores" -> IF scores.ok THEN scores.obj ELSE None
             [] OTHER -> rest[part]]

Reproduced(part) ==
    /\ part \in DOMAIN Decoded(download)
    /\ Decoded(download)[part] = ShownAnalysis[part]

C15_ExportReproducesAnalysis ==
    Exported => \A part \in AnalysisParts : Reproduced(part)

\* C15, amended: decoding the export document reproduces the summary, the
\* qa_scores, the recommendations and the tags of the Analysis; the
\* transcript is not part of the document
C15_ExportReproducesExportedParts ==
    Exported =>
        /\ \A part \in AnalysisParts \ {"transcript"} : Reproduced(part)
        /\ DOMAIN Decoded(download) = AnalysisParts \ {"transcript"}

\* C15: an Analysis with model-supplied summary and scores was exported
C15_Witness ==
    /\ Exported
    /\ ShownAnalysis.summary # DocSummaryFallback
    /\ ShownAnalysis.qa_scores.overall # ShownAnalysis.qa_scores.empathy
    /\ ShownAnalysis.recommendations.l # <<>>

(***************************************************************************)
(* C16: get_score_label classifies every score s in [0,10] by the three    *)
(* thresholds exactly: "Excellent" iff s >= 8.0, "Good" iff 6.0 <= s <     *)
(* 8.0, "Needs Improvement" iff 4.0 <= s < 6.0, "Poor" iff s < 4.0; and    *)
(* get_score_color agrees with it (green iff Excellent, orange iff Good,   *)
(* red otherwise).  Scores are in tenths.                                  *)
(***************************************************************************)
C16_LabelsFollowThresholds ==
    label # "" =>
        /\ label \in {"Excellent", "Good", "Needs Improvement", "Poor"}
        /\ label = "Excellent" <=> score >= 80
        /\ label = "Good" <=> (60 <= score /\ score < 80)
        /\ label = "Needs Improvement" <=> (40 <= score /\ score < 60)
        /\ label = "Poor" <=> score < 40
        /\ color = "green" <=> label = "Excellent"
        /\ color = "orange" <=> label = "Good"
        /\ color = "red" <=> label \in {"Needs Improvement", "Poor"}

\* C16: a score on the lowest threshold was shown
C16_Witness ==
    /\ score = 40
    /\ label = "Needs Improvement"
    /\ color = "red"

(***************************************************************************)
(* C17: each stage node writes only the pipeline-state field it produces   *)
(* (intake: intake_data; normalization: transcript; summarization:         *)
(* summary; quality scoring: qa_scores; routing: recommendations and       *)
(* tags): whether the agent returned or raised, the step of a node leaves  *)
(* raw_input and every field produced by another stage as it was.          *)
(***************************************************************************)
Produces(node) ==
    CASE node = "intake" -> {"intake_data"}
      [] node = "transcription" -> {"transcript"}
      [] node = "summarization" -> {"summary"}
      [] node = "quality_scoring" -> {"qa_scores"}
      [] node = "routing" -> {"recommendations", "tags"}

StageFields == UNION {Produces(StageOrder[i]) : i \in 1..Len(StageOrder)}

\* the fields the node at pc must leave alone
Frame(node) == ({"raw_input"} \cup StageFields) \ Produces(node)

C17_StagesWriteOwnField ==
    [][\A i \in 1..Len(StageOrder) :
          pc = StageOrder[i] =>
              \A field \in Frame(StageOrder[i]) : state'[field] = state[field]]_vars

\* C17: the Summarization node caught an exception of the model call, and
\* the fields of Intake and Normalization are as those stages left them
C17_Witness ==
    /\ pc = "quality_scoring"
    /\ Caught("summarization") /\ Called("summarization")
    /\ IsInstance(state.transcript, "CallTranscript")
    /\ state.intake_data # EmptyDict
    /\ state.summary = None

(***************************************************************************)
(* C18: every Summary the Summarization step returns has its sentiment in  *)
(* {positive, neutral, negative}, its category in {complaint, inquiry,     *)
(* technical_support, billing, general} and no field unset; a response     *)
(* naming another sentiment or category yields the whole fallback Summary, *)
(* never model-supplied fields mixed with defaults.                        *)
(***************************************************************************)
\* the response names a value for field k outside the given members
NamesOther(o, k, members) ==
    k \in DOMAIN o /\ ~(o[k].t = "str" /\ o[k].s \in members)

SummaryWellFormed(summary) ==
    /\ DOMAIN summary = SummaryFields \cup {"cls"}
    /\ summary.cls = "CallSummary"
    /\ summary.sentiment \in {"positive", "neutral", "negative"}
    /\ summary.category \in
          {"complaint", "inquiry", "technical_support", "billing", "general"}
    /\ summary.key_points.t = "list" /\ summary.action_items.t = "list"
    /\ summary.customer_issue.t = "str" /\ summary.resolution.t = "str"

C18_SummaryEnumsOrFallback ==
    /\ state.summary # None => SummaryWellFormed(state.summary)
    /\ AnsweredObject("summarization") =>
          LET o == Answer("summarization").o IN
          (\/ NamesOther(o, "sentiment", {"positive", "neutral", "negative"})
           \/ NamesOther(o, "category", {"complaint", "inquiry", "technical_support",
                                         "billing", "general"}))
          => /\ state.summary = DocSummaryFallback
             /\ ~Caught("summarization")

\* C18: the response named the sentiment "mixed" among otherwise valid
\* fields, and the run completed with the fallback Summary
C18_Witness ==
    /\ Returned /\ IsAnalysis(result)
    /\ AnsweredObject("summarization")
    /\ {"sentiment", "category"} \subseteq DOMAIN Answer("summarization").o
    /\ Answer("summarization").o["sentiment"] = JStr("mixed")
    /\ Answer("summarization").o["category"] = JStr("technical_support")
    /\ result.summary = DocSummaryFallback

(***************************************************************************)
(* C19: after a stage has raised an exception in a run, no further model   *)
(* call is issued in that run: every stage downstream of the failure finds *)
(* its required input (transcript, summary or qa_scores) missing and fails *)
(* before invoking the model, and the run ends with an error record.       *)
(***************************************************************************)
\* the stages executed after the first one that raised
Downstream ==
    {executed[i] : i \in {j \in 1..Len(executed) : Rank(executed[j]) > Rank(FirstRaise.node)}}

RequiredInputs(node) ==
    CASE node = "summarization" -> {"transcript"}
      [] node = "quality_scoring" -> {"transcript", "summary"}
      [] node = "routing" -> {"summary", "qa_scores"}
      [] OTHER -> {}

C19_NoCallAfterRaise ==
    raisedLog # <<>> =>
        /\ \A i \in 1..Len(calls) : Rank(calls[i].node) <= Rank(FirstRaise.node)
        /\ \A node \in Downstream :
              /\ \E field \in RequiredInputs(node) : state[field] = None
              /\ \E i \in 2..Len(raisedLog) :
                    raisedLog[i].node = node /\ ~raisedLog[i].called
        /\ Returned => IsErrorRecord(result)

\* C19: the model call of Summarization raised; Quality Scoring and Routing
\* ran after it without a call, and the run returned an error record
C19_Witness ==
    /\ Returned /\ IsErrorRecord(result)
    /\ raisedLog # <<>>
    /\ FirstRaise.node = "summarization" /\ FirstRaise.called
    /\ Downstream = {"quality_scoring", "routing"}
    /\ CallNodes = <<"intake", "summarization">>

====
